---- MODULE Spec2Model ----
(***************************************************************************)
(* A model of ChessBot (src/ChessBot.py): the move-log reconciler          *)
(* (get_moves), the turn arbiter (is_turn, handle_end_game,                *)
(* determine_turn), the coordinate mapper (calculate_positions), the move  *)
(* executor (execute_move, handle_promotion) and the game loop.            *)
(*                                                                         *)
(* Python strings are modelled as sequences of one-character strings, so   *)
(* that lower(), isdigit(), slicing and the `in` substring test are        *)
(* computed character by character as the interpreter computes them.       *)
(***************************************************************************)
EXTENDS Integers, Sequences, FiniteSets, TLC

VARIABLES
    \* ---- the rendering surface (lichess page), read through selenium ----
    page,            \* "lobby": no game on the page; "game": a game page; "closed"
    orient,          \* class of the ranks element: "white" or "black" at the bottom
    log,             \* children of the move-list container: <<[id, text], ...>>
    nextId,          \* identity of the next element the page creates
    screen,          \* geometry the driver reports for the board element
    \* ---- ChessBot fields ----
    color,           \* self.color
    flag,            \* self.flag
    bongcloud,       \* self.bongcloud
    moves_elements,  \* self.moves_elements (identities of the elements seen)
    moves,           \* self.moves
    positions,       \* self.positions
    \* ---- the worker thread ----
    pc,              \* where the worker thread stands in gameloop()
    bong,            \* index of the next move of execute_bongcloud_moves()
    turn,            \* value returned by the last is_turn() call
    last,            \* name of the last method the worker ran
    outcome,         \* what the last is_turn() call printed about the game's end
    \* ---- observations of the external collaborators ----
    src_ids,         \* for each entry of self.moves, the element it was read from
    gestures,        \* pyautogui calls made by the last execute_move()
    window,          \* list of moves last handed to stockfish
    delta_rejected,  \* whether stockfish raised ValueError on the last such list
    seen_at_move,    \* len(self.moves_elements) when the last move of this game
                     \* was executed, -1 when none was
    nQuery,          \* parity of the number of get_best_move_time() calls
    nExec            \* parity of the number of execute_move() calls

vars == <<page, orient, log, nextId, screen, color, flag, bongcloud,
          moves_elements, moves, positions, pc, bong, turn, last,
          outcome, src_ids, gestures, window, delta_rejected, seen_at_move,
          nQuery, nExec>>

envVars == <<page, orient, log, nextId, screen>>

(***************************************************************************)
(* Bounds of the model.                                                    *)
(***************************************************************************)
MaxPlies == 3      \* plies the page renders in one game
MaxSize == 9       \* largest board width and height (pixels) in SpecGeom
MaxOrigin == 1     \* board origins range over -MaxOrigin..MaxOrigin in SpecGeom

(***************************************************************************)
(* Python string operations on sequences of characters.                    *)
(***************************************************************************)
UpperCase == <<"A","B","C","D","E","F","G","H","I","J","K","L","M",
               "N","O","P","Q","R","S","T","U","V","W","X","Y","Z">>
LowerCase == <<"a","b","c","d","e","f","g","h","i","j","k","l","m",
               "n","o","p","q","r","s","t","u","v","w","x","y","z">>
DigitChars == <<"0","1","2","3","4","5","6","7","8","9">>

\* the index of c in the sequence s (list.index), 0 when absent
IndexOf(s, c) ==
    LET hits == {i \in 1..Len(s) : s[i] = c}
    IN  IF hits = {} THEN 0 ELSE CHOOSE i \in hits : \A j \in hits : i <= j

Range(s) == {s[i] : i \in 1..Len(s)}

LowerOf == [c \in Range(UpperCase) |-> LowerCase[IndexOf(UpperCase, c)]]

\* str.lower()
lower(s) ==
    [i \in 1..Len(s) |-> IF s[i] \in DOMAIN LowerOf THEN LowerOf[s[i]] ELSE s[i]]

\* sub in s, for strings
Contains(s, sub) ==
    \E i \in 1..(Len(s) - Len(sub) + 1) : SubSeq(s, i, i + Len(sub) - 1) = sub

\* str.isdigit()
isdigit(s) ==
    /\ Len(s) > 0
    /\ \A i \in 1..Len(s) : s[i] \in Range(DigitChars)

\* int(c) for a one-character string holding a digit
int(c) == IndexOf(DigitChars, c) - 1

\* str(n) for an integer of at most two digits
str(n) ==
    IF n < 0 THEN <<"-">> \o (IF -n < 10 THEN <<DigitChars[-n + 1]>>
                              ELSE <<DigitChars[((-n) \div 10) + 1], DigitChars[((-n) % 10) + 1]>>)
    ELSE IF n < 10 THEN <<DigitChars[n + 1]>>
    ELSE <<DigitChars[(n \div 10) + 1], DigitChars[(n % 10) + 1]>>

\* " ".join(list)
RECURSIVE join(_)
join(list) ==
    IF list = <<>> THEN <<>>
    ELSE IF Len(list) = 1 THEN list[1]
    ELSE list[1] \o <<" ">> \o join(Tail(list))

\* round(n / 16): Python 3 rounds halves to the even neighbour
round16(n) ==
    LET q == n \div 16
        r == n % 16
    IN  IF r < 8 THEN q
        ELSE IF r > 8 THEN q + 1
        ELSE IF q % 2 = 0 THEN q ELSE q + 1

(***************************************************************************)
(* Coordinate mapper.                                                      *)
(***************************************************************************)
files == <<"a","b","c","d","e","f","g","h">>
ranks == <<1, 2, 3, 4, 5, 6, 7, 8>>

reversed(s) == [i \in 1..Len(s) |-> s[Len(s) + 1 - i]]

\* the key f'{file}{rank}' of the positions dictionary
SquareName(file, rank) == <<file>> \o str(rank)

SquareNames == {SquareName(f, r) : f \in Range(files), r \in Range(ranks)}

\* calculate_positions() with the files of the black table left unreversed
calculate_positions_unreversed(c, fs, rs, abs_x, abs_y, width, height) ==
    [sq \in {SquareName(f, r) : f \in Range(fs), r \in Range(rs)} |->
        LET file == sq[1]
            rank == int(sq[2])
        IN  <<round16(2 * width * (IndexOf(fs, file) - 1) + width + 16 * abs_x),
              round16(2 * height * (IF c = "white" THEN 8 - rank ELSE rank - 1)
                      + height + 16 * abs_y)>>]

\* calculate_positions(): with integer arguments every term
\* (width / 8) * i + (width / 8) / 2 + abs_x is a multiple of 1/16 and exact
\* in binary floating point, so round() is applied to exactly n / 16.
calculate_positions(c, fs, rs, abs_x, abs_y, width, height) ==
    IF c = "white"
    THEN [sq \in {SquareName(f, r) : f \in Range(fs), r \in Range(rs)} |->
            LET file == sq[1]
                rank == int(sq[2])
            IN  <<round16(2 * width * (IndexOf(fs, file) - 1) + width + 16 * abs_x),
                  round16(2 * height * (8 - rank) + height + 16 * abs_y)>>]
    ELSE LET rfs == reversed(fs)
         IN  [sq \in {SquareName(f, r) : f \in Range(rfs), r \in Range(rs)} |->
                LET file == sq[1]
                    rank == int(sq[2])
                IN  <<round16(2 * width * (IndexOf(rfs, file) - 1) + width + 16 * abs_x),
                      round16(2 * height * (rank - 1) + height + 16 * abs_y)>>]

\* get_board_coords(): the board's screen origin and size from what the
\* driver reports.  s is the record the driver answers with.
get_board_coords(c, s) ==
    LET corrected_x == s.element_x + s.chrome_w
        corrected_y == s.element_y + s.chrome_h
        abs_x == corrected_x + s.driver_x
        abs_y == corrected_y
    IN  calculate_positions(c, files, ranks, abs_x, abs_y, s.width, s.height)

\* the arguments get_board_coords() passes on
abs_x_of(s) == s.element_x + s.chrome_w + s.driver_x
abs_y_of(s) == s.element_y + s.chrome_h

(***************************************************************************)
(* Move executor.                                                          *)
(***************************************************************************)
DRAG_DURATION_SHORT == 0     \* seconds (0 s)
DRAG_DURATION_LONG == 3      \* tenths of a second (0.3 s)
show_move == FALSE

Gesture(op, x, y) ==
    [op |-> op, x |-> x, y |-> y,
     duration |-> IF show_move THEN DRAG_DURATION_LONG ELSE DRAG_DURATION_SHORT,
     button |-> IF show_move THEN "secondary" ELSE "primary"]

move_adjustments(piece) ==
    CASE piece = "q" -> 0
      [] piece = "n" -> -1
      [] piece = "r" -> -2
      [] piece = "b" -> -3
      [] OTHER -> 0

\* handle_promotion() without the change of sign for black
handle_promotion_unsigned(c, pos, move, to_x) ==
    IF Contains(<<"q","n","r","b">>, <<move[Len(move)]>>)
    THEN LET adjusted_rank == str(int(move[4]) + move_adjustments(move[Len(move)]))
             promotion_position == <<move[3]>> \o adjusted_rank
         IN  IF promotion_position \in DOMAIN pos
             THEN [calls |-> <<Gesture("click", to_x, pos[promotion_position][2])>>,
                   raised |-> FALSE]
             ELSE [calls |-> <<>>, raised |-> TRUE]
    ELSE [calls |-> <<>>, raised |-> FALSE]

\* handle_promotion(): the calls made after the drag to (to_x, to_y), and
\* whether the lookup of the pick square raised KeyError.  click(y=...) keeps
\* the pointer's x, which the drag left at to_x.
handle_promotion(c, pos, move, to_x) ==
    IF Contains(<<"q","n","r","b">>, <<move[Len(move)]>>)
    THEN LET adjustment == IF c = "black" THEN -move_adjustments(move[Len(move)])
                           ELSE move_adjustments(move[Len(move)])
             adjusted_rank == str(int(move[4]) + adjustment)
             promotion_position == <<move[3]>> \o adjusted_rank
         IN  IF promotion_position \in DOMAIN pos
             THEN [calls |-> <<Gesture("click", to_x, pos[promotion_position][2])>>,
                   raised |-> FALSE]
             ELSE [calls |-> <<>>, raised |-> TRUE]
    ELSE [calls |-> <<>>, raised |-> FALSE]

\* execute_move(): the pyautogui calls of one move and whether it raised
execute_move(c, pos, move) ==
    IF SubSeq(move, 1, 2) \notin DOMAIN pos \/ SubSeq(move, 3, 4) \notin DOMAIN pos
    THEN [move |-> move, calls |-> <<>>, raised |-> TRUE]
    ELSE LET from == pos[SubSeq(move, 1, 2)]
             to == pos[SubSeq(move, 3, 4)]
             drag == <<Gesture("moveTo", from[1], from[2]), Gesture("dragTo", to[1],
                   to[2])>>
         IN  IF isdigit(<<move[Len(move)]>>)
             THEN [move |-> move, calls |-> drag, raised |-> FALSE]
             ELSE LET p == handle_promotion(c, pos, move, to[1])
                  IN  [move |-> move, calls |-> drag \o p.calls, raised |-> p.raised]

NoGestures == [move |-> <<>>, calls |-> <<>>, raised |-> FALSE]

(***************************************************************************)
(* The rendering surface.                                                  *)
(***************************************************************************)
WhiteWins == <<"W","h","i","t","e"," ","i","s"," ","v","i","c","t","o","r","i","o","u","s">>
BlackWins == <<"B","l","a","c","k"," ","i","s"," ","v","i","c","t","o","r","i","o","u","s">>
GameAborted == <<"G","a","m","e"," ","a","b","o","r","t","e","d">>
DrawText == <<"D","r","a","w">>
\* a victory status that also holds the substring "draw"
WhiteWinsNoDraw == <<"D","r","a","w"," ","r","e","f","u","s","e","d",","," ">> \o WhiteWins

StatusTexts == {WhiteWins, BlackWins, GameAborted, DrawText, WhiteWinsNoDraw}

\* the moves the page shows, ply by ply: 1. Nf3 Nf6 2. Ng1 Ng8 3. Nf3 ...
San(ply) ==
    CASE ply % 4 = 1 -> <<"N","f","3">>
      [] ply % 4 = 2 -> <<"N","f","6">>
      [] ply % 4 = 3 -> <<"N","g","1">>
      [] OTHER -> <<"N","g","8">>

Ids(l) == [i \in 1..Len(l) |-> l[i].id]

Ended(l) == Len(l) > 0 /\ l[Len(l)].text \in StatusTexts

\* number of plies the log shows
Plies(l) == Cardinality({i \in 1..Len(l) : ~isdigit(l[i].text) /\ l[i].text \notin StatusTexts})

Entry(id, text) == [id |-> id, text |-> text]

\* a game page is loaded: the ranks element shows the orientation, the log is empty
StartGame(o) ==
    /\ pc # "exited"
    /\ page = "lobby"
    /\ page' = "game"
    /\ orient' = o
    /\ log' = <<>>
    /\ UNCHANGED <<nextId, screen, color, flag, bongcloud, moves_elements, moves,
                   positions, pc, bong, turn, last, outcome, src_ids, gestures, window,
                   delta_rejected, nQuery, nExec, seen_at_move>>

\* a ply is played: a white ply adds the move number and the move, a black ply the move
RenderPly ==
    /\ pc # "exited"
    /\ page = "game"
    /\ ~Ended(log)
    /\ Plies(log) < MaxPlies
    /\ LET ply == Plies(log) + 1
       IN  IF ply % 2 = 1
           THEN /\ log' = log \o <<Entry(nextId, str((ply + 1) \div 2)),
                                   Entry(nextId + 1, San(ply))>>
                /\ nextId' = nextId + 2
           ELSE /\ log' = Append(log, Entry(nextId, San(ply)))
                /\ nextId' = nextId + 1
    /\ UNCHANGED <<page, orient, screen, color, flag, bongcloud,
                   moves_elements, moves, positions, pc, bong, turn, last, outcome,
                   src_ids, gestures, window, delta_rejected, nQuery, nExec, seen_at_move>>

\* the game ends: the page adds a status line
RenderStatus(t) ==
    /\ pc # "exited"
    /\ page = "game"
    /\ ~Ended(log)
    /\ log' = Append(log, Entry(nextId, t))
    /\ nextId' = nextId + 1
    /\ UNCHANGED <<page, orient, screen, color, flag, bongcloud,
                   moves_elements, moves, positions, pc, bong, turn, last, outcome,
                   src_ids, gestures, window, delta_rejected, nQuery, nExec, seen_at_move>>

(***************************************************************************)
(* Move log reconciler.                                                    *)
(***************************************************************************)
\* filtered_new_moves() that filters nothing
filtered_new_moves_all(new_moves, seen) == new_moves

\* the entries of new_moves that are not in self.moves_elements (WebElement
\* equality is equality of the element's identity)
filtered_new_moves(new_moves, seen) ==
    LET IsNew(e) == \A i \in 1..Len(seen) : seen[i] # e.id
    IN  SelectSeq(new_moves, IsNew)

\* move.text + "." if move.text.isdigit() else move.text
\* line 227 without the marker
normalize_raw(text) == text

normalize(text) == IF isdigit(text) THEN text \o <<".">> ELSE text

\* get_moves(): the fields after the call.  `present` tells whether the
\* move-list container is on the page (wait_for_element raises otherwise);
\* `stale` tells whether reading the text of a new element raises.  Every
\* exception is swallowed by the handler.
get_moves(present, new_moves, stale, seen, ms, srcs) ==
    IF ~present
    THEN [moves_elements |-> seen, moves |-> ms, src_ids |-> srcs]
    ELSE LET new == filtered_new_moves(new_moves, seen)
         IN  IF stale /\ new # <<>>
             THEN [moves_elements |-> seen \o Ids(new), moves |-> ms, src_ids |-> srcs]
             ELSE [moves_elements |-> seen \o Ids(new),
                   moves |-> ms \o [i \in 1..Len(new) |-> normalize(new[i].text)],
                   src_ids |-> srcs \o Ids(new)]

(***************************************************************************)
(* Turn arbiter.                                                           *)
(***************************************************************************)
victorious == <<"v","i","c","t","o","r","i","o","u","s">>
white_is_victorious == <<"w","h","i","t","e"," ","i","s"," ">> \o victorious
black_is_victorious == <<"b","l","a","c","k"," ","i","s"," ">> \o victorious
draw == <<"d","r","a","w">>
aborted == <<"a","b","o","r","t","e","d">>

\* the message of the victorious branch, with white taken for the winner's
\* side whichever side is played
victory_message_whiteonly(c, text) ==
    IF Contains(text, white_is_victorious) THEN "win" ELSE "loss"

\* the message printed in the victorious branch of handle_end_game():
\* "We win!" or "We lost!"
victory_message(c, text) ==
    IF Contains(text, white_is_victorious) /\ c = "white" THEN "win"
    ELSE IF Contains(text, white_is_victorious) /\ c = "black" THEN "loss"
    ELSE IF Contains(text, black_is_victorious) /\ c = "black" THEN "win"
    ELSE "loss"

\* handle_end_game() that forgets to set self.flag when the game is drawn
handle_end_game_noflag(c, ms) ==
    LET text == lower(ms[Len(ms)])
    IN  IF Contains(text, victorious)
        THEN [ret |-> FALSE, flag |-> TRUE, printed |-> victory_message(c, text)]
        ELSE IF \E word \in {draw, aborted} : Contains(text, word)
        THEN [ret |-> FALSE, flag |-> FALSE, printed |-> "draw"]
        ELSE [ret |-> TRUE, flag |-> FALSE, printed |-> "ongoing"]

\* handle_end_game() that looks for draw and aborted before victorious
handle_end_game_drawfirst(c, ms) ==
    LET text == lower(ms[Len(ms)])
    IN  IF \E word \in {draw, aborted} : Contains(text, word)
        THEN [ret |-> FALSE, flag |-> TRUE, printed |-> "draw"]
        ELSE IF Contains(text, victorious)
        THEN [ret |-> FALSE, flag |-> TRUE, printed |-> victory_message(c, text)]
        ELSE [ret |-> TRUE, flag |-> FALSE, printed |-> "ongoing"]

\* handle_end_game() that knows of draws only, not of aborted games
handle_end_game_drawonly(c, ms) ==
    LET text == lower(ms[Len(ms)])
    IN  IF Contains(text, victorious)
        THEN [ret |-> FALSE, flag |-> TRUE, printed |-> victory_message(c, text)]
        ELSE IF Contains(text, draw)
        THEN [ret |-> FALSE, flag |-> TRUE, printed |-> "draw"]
        ELSE [ret |-> TRUE, flag |-> FALSE, printed |-> "ongoing"]

\* handle_end_game(): the value returned, whether self.flag is set, and the
\* message printed ("We win!", "We lost!", "It's a draw!")
handle_end_game(c, ms) ==
    LET text == lower(ms[Len(ms)])
    IN  IF Contains(text, victorious)
        THEN [ret |-> FALSE, flag |-> TRUE, printed |-> victory_message(c, text)]
        ELSE IF \E word \in {draw, aborted} : Contains(text, word)
        THEN [ret |-> FALSE, flag |-> TRUE, printed |-> "draw"]
        ELSE [ret |-> TRUE, flag |-> FALSE, printed |-> "ongoing"]

\* determine_turn() with the same rule for both sides
determine_turn_sameside(c, ms) == Len(ms) % 3 = 0

\* the parity of a log without move-number markers
determine_turn_nomarkers(c, ms) ==
    IF c = "white" THEN Len(ms) % 2 = 0
    ELSE (Len(ms) - 1) % 2 = 0

determine_turn(c, ms) ==
    IF c = "white" THEN Len(ms) % 3 = 0
    ELSE (Len(ms) - 2) % 3 = 0

\* is_turn() that takes the first turn for black
is_turn_blackfirst(c, ms) ==
    IF ms = <<>>
    THEN [ret |-> c = "black", flag |-> FALSE, printed |-> "ongoing"]
    ELSE LET h == handle_end_game(c, ms)
         IN  IF ~h.ret THEN h
             ELSE [ret |-> determine_turn(c, ms), flag |-> FALSE, printed |-> "ongoing"]

\* is_turn() after its get_moves() call
is_turn(c, ms) ==
    IF ms = <<>>
    THEN [ret |-> c # "black", flag |-> FALSE, printed |-> "ongoing"]
    ELSE LET h == handle_end_game(c, ms)
         IN  IF ~h.ret THEN h
             ELSE [ret |-> determine_turn(c, ms), flag |-> FALSE, printed |-> "ongoing"]

(***************************************************************************)
(* Position translator and engine.                                         *)
(***************************************************************************)
\* the rules validator (python-chess): a move-number token is skipped, a
\* move in standard notation becomes source square + destination square
IsMoveNumber(tok) == Len(tok) > 1 /\ tok[Len(tok)] = "." /\ isdigit(SubSeq(tok, 1, Len(tok) - 1))

KnownSan == {<<"N","f","3">>, <<"N","f","6">>, <<"N","g","1">>, <<"N","g","8">>}

SanToUci(san) ==
    CASE san = <<"N","f","3">> -> <<"g","1","f","3">>
      [] san = <<"N","f","6">> -> <<"g","8","f","6">>
      [] san = <<"N","g","1">> -> <<"f","3","g","1">>
      [] san = <<"N","g","8">> -> <<"f","6","g","8">>

\* pgn.mainline_moves() of the game read from " ".join(self.moves): parsing
\* stops at the first token that is no move
RECURSIVE mainline_moves(_)
mainline_moves(ms) ==
    IF ms = <<>> THEN <<>>
    ELSE IF IsMoveNumber(Head(ms)) THEN mainline_moves(Tail(ms))
    ELSE IF Head(ms) \in KnownSan THEN <<SanToUci(Head(ms))>> \o mainline_moves(Tail(ms))
    ELSE <<>>

\* the loop of get_next_move() without lines 306-307: every move is kept
engine_delta_all(parsed, acc) == acc \o parsed

\* the loop of get_next_move(): at most the two latest moves are kept
RECURSIVE engine_delta(_, _)
engine_delta(parsed, acc) ==
    IF parsed = <<>> THEN acc
    ELSE engine_delta(Tail(parsed),
                      Append(IF Len(acc) >= 2 THEN Tail(acc) ELSE acc, Head(parsed)))

\* what stockfish may answer to get_best_move_time(): a move of the side the
\* bot plays, or nothing (<<>>)
EngineMoves(c) ==
    IF c = "black"
    THEN {<<"g","8","f","6">>, <<"e","2","e","1","n">>}
    ELSE {<<"g","1","f","3">>, <<"e","7","e","8","n">>}

(***************************************************************************)
(* The worker thread: gameloop().                                          *)
(***************************************************************************)
Flip(n) == 1 - n

\* initialize_game() while the ranks element is absent: the fields are reset
\* and wait_for_ranks() keeps retrying
InitializeGameWait ==
    /\ pc = "init"
    /\ page # "game"
    /\ moves_elements' = <<>>
    /\ moves' = <<>>
    /\ src_ids' = <<>>
    /\ last' = "initialize_game"
    /\ UNCHANGED <<envVars, color, flag, bongcloud, positions, pc, bong, turn, outcome,
                   gestures, window, delta_rejected, nQuery, nExec, seen_at_move>>

\* line 187 with the other side
plays_first_move_black(c) == c = "black"

\* the test of line 187: the side that makes the opening move in
\* initialize_game()
plays_first_move(c) == c = "white"

\* initialize_game() on a game page.  clock: "absent" (wait_for_element raises
\* TimeoutException, which ends the worker) or "present".  self.time is read
\* only when self.track_clock is set, which it never is, and is left out.
InitializeGame(clock) ==
    /\ pc = "init"
    /\ page = "game"
    /\ moves_elements' = <<>>
    /\ moves' = <<>>
    /\ src_ids' = <<>>
    /\ last' = "initialize_game"
    /\ IF clock = "absent"
       THEN /\ pc' = "crashed"
            /\ UNCHANGED <<color, positions, gestures, nExec, seen_at_move, bong>>
       ELSE /\ color' = (IF orient = "black" THEN "black" ELSE "white")
            /\ positions' = get_board_coords(color', screen)
            /\ IF ~bongcloud
               THEN /\ IF plays_first_move(color')
                       THEN /\ gestures' = execute_move(color', positions', <<"e","2","e","4">>)
                            /\ nExec' = Flip(nExec)
                            /\ seen_at_move' = Len(moves_elements')
                       ELSE /\ seen_at_move' = -1
                            /\ UNCHANGED <<gestures, nExec>>
                    /\ pc' = "await"
                    /\ UNCHANGED bong
               ELSE /\ pc' = "bong"
                    /\ bong' = 1
                    /\ seen_at_move' = -1
                    /\ UNCHANGED <<gestures, nExec>>
    /\ UNCHANGED <<envVars, flag, bongcloud, turn, outcome, window, delta_rejected, nQuery>>

\* one iteration of `while not self.is_turn() and not self.flag` in gameloop()
AwaitTurn(stale) ==
    /\ pc = "await"
    /\ LET g == get_moves(page = "game", log, stale, moves_elements, moves, src_ids)
           t == is_turn(color, g.moves)
       IN  /\ moves_elements' = g.moves_elements
           /\ moves' = g.moves
           /\ src_ids' = g.src_ids
           /\ turn' = t.ret
           /\ outcome' = t.printed
           /\ flag' = (flag \/ t.flag)
           /\ pc' = IF flag' THEN "over" ELSE IF t.ret THEN "think" ELSE "await"
    /\ last' = "is_turn"
    /\ UNCHANGED <<envVars, color, bongcloud, positions, bong, gestures, window,
                   delta_rejected, nQuery, nExec, seen_at_move>>

\* lines 317-318 left out: the flag stays as it was
flag_after_best_move_unset(best, f) == f

\* lines 315-318, the flag after the engine has answered: it is set when
\* there is no best move
flag_after_best_move(best, f) == IF best # <<>> THEN f ELSE TRUE

\* get_next_move(), and the test of `while not self.flag` that follows it in
\* gameloop().  rejected: make_moves_from_current_position raised
\* ValueError, which is caught and only printed; best: the engine's answer,
\* <<>> for none.
GetNextMove(rejected, best) ==
    /\ pc = "think"
    /\ last' = "get_next_move"
    /\ IF moves = <<>>
       THEN \* read_game() returns None at end of input: pgn.mainline_moves raises
            /\ pc' = "crashed"
            /\ UNCHANGED <<flag, gestures, window, delta_rejected, nQuery, nExec,
                           seen_at_move>>
       ELSE /\ window' = engine_delta(mainline_moves(moves), <<>>)
            /\ delta_rejected' = rejected
            /\ nQuery' = Flip(nQuery)
            /\ flag' = flag_after_best_move(best, flag)
            /\ IF best # <<>>
               THEN /\ gestures' = execute_move(color, positions, best)
                    /\ nExec' = Flip(nExec)
                    /\ seen_at_move' = Len(moves_elements)
               ELSE UNCHANGED <<gestures, nExec, seen_at_move>>
            /\ pc' = IF best # <<>> /\ gestures'.raised THEN "crashed"
                     ELSE IF flag' THEN "over" ELSE "await"
    /\ UNCHANGED <<envVars, color, bongcloud, moves_elements, moves, positions,
                   bong, turn, outcome, src_ids>>

\* handle_user_input() without line 427
HandleUserInput_noclear ==
    /\ pc = "over"
    /\ pc' = "init"
    /\ last' = "handle_user_input"
    /\ UNCHANGED <<envVars, color, flag, bongcloud, moves_elements, moves, positions,
                   bong, turn, outcome, src_ids, gestures, window, delta_rejected,
                   nQuery, nExec, seen_at_move>>

\* handle_user_input(): ENTER is pressed
HandleUserInput ==
    /\ pc = "over"
    /\ flag' = FALSE
    /\ pc' = "init"
    /\ last' = "handle_user_input"
    /\ UNCHANGED <<envVars, color, bongcloud, moves_elements, moves, positions,
                   bong, turn, outcome, src_ids, gestures, window, delta_rejected,
                   nQuery, nExec, seen_at_move>>

bongcloud_moves(c) ==
    IF c = "white"
    THEN <<<<"e","2","e","3">>, <<"e","1","e","2">>, <<"e","2","e","1">>>>
    ELSE <<<<"e","7","e","6">>, <<"e","8","e","7">>, <<"e","7","e","8">>>>

\* one iteration of the wait loop of execute_bongcloud_moves(), and the move
\* that follows it when the loop ends
ExecuteBongcloudMoves(stale) ==
    /\ pc = "bong"
    /\ LET g == get_moves(page = "game", log, stale, moves_elements, moves, src_ids)
           t == is_turn(color, g.moves)
       IN  /\ moves_elements' = g.moves_elements
           /\ moves' = g.moves
           /\ src_ids' = g.src_ids
           /\ turn' = t.ret
           /\ outcome' = t.printed
           /\ flag' = (flag \/ t.flag)
           /\ IF flag'
              THEN /\ pc' = "bongdone"
                   /\ UNCHANGED <<bong, gestures, nExec, seen_at_move>>
              ELSE IF t.ret
              THEN /\ gestures' = execute_move(color, positions, bongcloud_moves(color)[bong])
                   /\ nExec' = Flip(nExec)
                   /\ seen_at_move' = Len(moves_elements')
                   /\ bong' = bong + 1
                   /\ pc' = IF bong' > Len(bongcloud_moves(color)) THEN "bongdone" ELSE "bong"
              ELSE UNCHANGED <<pc, bong, gestures, nExec, seen_at_move>>
    /\ last' = "is_turn"
    /\ UNCHANGED <<envVars, color, bongcloud, positions, window, delta_rejected, nQuery>>

\* the rest of initialize_game() in bongcloud mode: the log is read and the
\* engine is given all moves but the last
InitializeGameBongcloud(stale) ==
    /\ pc = "bongdone"
    /\ LET g == get_moves(page = "game", log, stale, moves_elements, moves, src_ids)
       IN  /\ moves_elements' = g.moves_elements
           /\ moves' = g.moves
           /\ src_ids' = g.src_ids
           /\ pc' = IF g.moves = <<>> THEN "crashed"
                    ELSE IF flag THEN "over" ELSE "await"
           /\ window' = IF g.moves = <<>> THEN window
                        ELSE LET all == mainline_moves(g.moves)
                             IN  SubSeq(all, 1, Len(all) - 1)
    /\ last' = "initialize_game"
    /\ UNCHANGED <<envVars, color, flag, bongcloud, positions, bong, turn, outcome,
                   gestures, delta_rejected, nQuery, nExec, seen_at_move>>

\* exit_program(), line 136: ESC was pressed and the driver quits; the browser
\* window and its page are gone, the worker thread still runs and every
\* lookup of an element raises from now on
DriverQuit ==
    /\ pc # "exited"
    /\ page # "closed"
    /\ page' = "closed"
    /\ log' = <<>>
    /\ nextId' = 1
    /\ UNCHANGED <<orient, screen, color, flag, bongcloud, moves_elements, moves,
                   positions, pc, bong, turn, last, outcome, src_ids, gestures, window,
                   delta_rejected, nQuery, nExec, seen_at_move>>

\* exit_program(), line 137: quit() ends the process and with it the worker,
\* a daemon thread, wherever it is
ExitProgram ==
    /\ pc # "exited"
    /\ page = "closed"
    /\ pc' = "exited"
    /\ UNCHANGED <<envVars, color, flag, bongcloud, moves_elements, moves,
                   positions, bong, turn, last, outcome, src_ids, gestures, window,
                   delta_rejected, nQuery, nExec, seen_at_move>>

(***************************************************************************)
(* Specification of the program.                                          *)
(***************************************************************************)
\* the geometry the driver reports in the runs of Spec
DefaultScreen ==
    [element_x |-> 0, element_y |-> 0, width |-> 8, height |-> 8,
     driver_x |-> 0, chrome_w |-> 0, chrome_h |-> 0]

Init ==
    /\ page = "lobby"
    /\ orient = "white"
    /\ log = <<>>
    /\ nextId = 1
    /\ screen = DefaultScreen
    /\ color = "none"
    /\ flag = FALSE
    /\ bongcloud \in BOOLEAN
    /\ moves_elements = <<>>
    /\ moves = <<>>
    /\ positions = <<>>
    /\ pc = "init"
    /\ bong = 1
    /\ turn = FALSE
    /\ last = "none"
    /\ outcome = "ongoing"
    /\ src_ids = <<>>
    /\ gestures = NoGestures
    /\ window = <<>>
    /\ delta_rejected = FALSE
    /\ seen_at_move = -1
    /\ nQuery = 0
    /\ nExec = 0

Next ==
    \/ \E o \in {"white", "black"} : StartGame(o)
    \/ RenderPly
    \/ \E t \in StatusTexts : RenderStatus(t)
    \/ InitializeGameWait
    \/ \E clock \in {"absent", "present"} : InitializeGame(clock)
    \/ \E stale \in BOOLEAN : AwaitTurn(stale)
    \/ \E rejected \in BOOLEAN, best \in EngineMoves(color) \cup {<<>>} :
           GetNextMove(rejected, best)
    \/ HandleUserInput
    \/ \E stale \in BOOLEAN : ExecuteBongcloudMoves(stale)
    \/ \E stale \in BOOLEAN : InitializeGameBongcloud(stale)
    \/ DriverQuit
    \/ ExitProgram

Spec == Init /\ [][Next]_vars

(***************************************************************************)
(* Specification of the coordinate mapper and the move executor alone:     *)
(* the board geometry and the side are drawn from bounded sets,            *)
(* get_board_coords() computes the table and execute_move() replays moves. *)
(***************************************************************************)
Screens ==
    [element_x : -MaxOrigin..MaxOrigin, element_y : -MaxOrigin..MaxOrigin,
     width : 1..MaxSize, height : 1..MaxSize,
     driver_x : {0}, chrome_w : {0}, chrome_h : {0}]

\* moves handed to execute_move(): a plain move and the four promotions of
\* a pawn of the side played
GeomMoves(c) ==
    IF c = "black"
    THEN {<<"e","7","e","5">>} \cup {<<"e","2","e","1",p>> : p \in {"q","n","r","b"}}
    ELSE {<<"e","2","e","4">>} \cup {<<"e","7","e","8",p>> : p \in {"q","n","r","b"}}

InitGeom ==
    /\ page = "game"
    /\ orient \in {"white", "black"}
    /\ log = <<>>
    /\ nextId = 1
    /\ screen \in Screens
    /\ color = orient
    /\ flag = FALSE
    /\ bongcloud = FALSE
    /\ moves_elements = <<>>
    /\ moves = <<>>
    /\ positions = <<>>
    /\ pc = "coords"
    /\ bong = 1
    /\ turn = FALSE
    /\ last = "none"
    /\ outcome = "ongoing"
    /\ src_ids = <<>>
    /\ gestures = NoGestures
    /\ window = <<>>
    /\ delta_rejected = FALSE
    /\ seen_at_move = -1
    /\ nQuery = 0
    /\ nExec = 0

GetBoardCoords ==
    /\ pc = "coords"
    /\ positions' = get_board_coords(color, screen)
    /\ pc' = "ready"
    /\ UNCHANGED <<envVars, color, flag, bongcloud, moves_elements, moves, bong, turn,
                   last, outcome, src_ids, gestures, window, delta_rejected, nQuery,
                   nExec, seen_at_move>>

ExecuteMove(move) ==
    /\ pc = "ready"
    /\ gestures' = execute_move(color, positions, move)
    /\ nExec' = Flip(nExec)
    /\ seen_at_move' = Len(moves_elements)
    /\ UNCHANGED <<envVars, color, flag, bongcloud, moves_elements, moves, positions, pc,
                   bong, turn, last, outcome, src_ids, window, delta_rejected, nQuery>>

NextGeom ==
    \/ GetBoardCoords
    \/ \E move \in GeomMoves(color) : ExecuteMove(move)

SpecGeom == InitGeom /\ [][NextGeom]_vars

(***************************************************************************)
(* Specification of the turn rule alone: the page renders whole plies of a *)
(* long game, each poll is followed by determine_turn().                   *)
(***************************************************************************)
MaxParityPlies == 24

InitParity ==
    /\ page = "game"
    /\ orient \in {"white", "black"}
    /\ log = <<>>
    /\ nextId = 1
    /\ screen = DefaultScreen
    /\ color = orient
    /\ flag = FALSE
    /\ bongcloud = FALSE
    /\ moves_elements = <<>>
    /\ moves = <<>>
    /\ positions = <<>>
    /\ pc = "parity"
    /\ bong = 1
    /\ turn = FALSE
    /\ last = "none"
    /\ outcome = "ongoing"
    /\ src_ids = <<>>
    /\ gestures = NoGestures
    /\ window = <<>>
    /\ delta_rejected = FALSE
    /\ seen_at_move = -1
    /\ nQuery = 0
    /\ nExec = 0

\* a ply is played, as in RenderPly, in a game of up to MaxParityPlies plies
RenderWholePly ==
    /\ pc = "parity"
    /\ Plies(log) < MaxParityPlies
    /\ LET ply == Plies(log) + 1
       IN  IF ply % 2 = 1
           THEN /\ log' = log \o <<Entry(nextId, str((ply + 1) \div 2)),
                                   Entry(nextId + 1, San(ply))>>
                /\ nextId' = nextId + 2
           ELSE /\ log' = Append(log, Entry(nextId, San(ply)))
                /\ nextId' = nextId + 1
    /\ UNCHANGED <<page, orient, screen, color, flag, bongcloud, moves_elements, moves,
                   positions, pc, bong, turn, last, outcome, src_ids, gestures, window,
                   delta_rejected, nQuery, nExec, seen_at_move>>

\* get_moves() reads the log and determine_turn() is applied to the history
DetermineTurn ==
    /\ pc = "parity"
    /\ LET g == get_moves(TRUE, log, FALSE, moves_elements, moves, src_ids)
       IN  /\ moves_elements' = g.moves_elements
           /\ moves' = g.moves
           /\ src_ids' = g.src_ids
           /\ turn' = determine_turn(color, g.moves)
    /\ last' = "determine_turn"
    /\ UNCHANGED <<envVars, color, flag, bongcloud, positions, pc, bong, outcome,
                   gestures, window, delta_rejected, nQuery, nExec, seen_at_move>>

NextParity ==
    \/ RenderWholePly
    \/ DetermineTurn

SpecParity == InitParity /\ [][NextParity]_vars

(***************************************************************************)
(* Properties.                                                             *)
(***************************************************************************)
LastMove == moves[Len(moves)]

\* the trailing entry of the history says the game is over
TerminalText(text) == \E word \in {victorious, draw, aborted} : Contains(lower(text), word)

\* is_turn() was the last method to run, so `turn` and `outcome` are its
\* results on the present self.moves
AfterIsTurn == last = "is_turn"

\* C1 as stated: whenever is_turn() has returned on a non-empty history of
\* length L, it returned true iff L mod 3 = 0 (white) or (L-2) mod 3 = 0 (black).
C1_AnyHistory ==
    (AfterIsTurn /\ moves # <<>>) =>
        (turn <=> IF color = "white" THEN Len(moves) % 3 = 0
                  ELSE (Len(moves) - 2) % 3 = 0)

\* C1 amended: whenever is_turn() has returned on a non-empty history of
\* length L whose trailing entry is not terminal, it returned true iff
\* L mod 3 = 0 (white) or (L-2) mod 3 = 0 (black).
C1_NonTerminalHistory ==
    (AfterIsTurn /\ moves # <<>> /\ ~TerminalText(LastMove)) =>
        (turn <=> IF color = "white" THEN Len(moves) % 3 = 0
                  ELSE (Len(moves) - 2) % 3 = 0)

\* is_turn() returned true for white on the history ["1.", "Nf3", "Nf6"]
C1_Witness ==
    /\ AfterIsTurn
    /\ color = "white"
    /\ moves = <<<<"1",".">>, <<"N","f","3">>, <<"N","f","6">>>>
    /\ turn

\* C2: whenever is_turn() has returned with the history still empty, it
\* returned true iff the side is white, and the termination flag is not set.
C2_EmptyHistory ==
    (AfterIsTurn /\ moves = <<>>) => ((turn <=> color = "white") /\ ~flag)

\* is_turn() returned false for black on an empty history
C2_Witness == AfterIsTurn /\ moves = <<>> /\ color = "black" /\ ~turn

\* C3: whenever is_turn() has returned on a history whose trailing entry is
\* terminal it returned false and the flag is set; while the flag is set no
\* step asks the engine for a move or executes a move, and only the restart
\* signal (handle_user_input) clears the flag.
C3_TerminalStops ==
    /\ []((AfterIsTurn /\ moves # <<>> /\ TerminalText(LastMove)) => (~turn /\ flag))
    /\ [][flag => (nQuery' = nQuery /\ nExec' = nExec)]_vars
    /\ [][(flag /\ ~flag') => last' = "handle_user_input"]_vars

\* the worker waits for the restart signal after a terminal entry was read
C3_Witness ==
    /\ AfterIsTurn
    /\ moves # <<>>
    /\ TerminalText(LastMove)
    /\ flag
    /\ pc = "over"

\* C4 as stated: every element a poll has seen has exactly one entry in the
\* history.
C4_ExactlyOnce ==
    \A i \in 1..Len(moves_elements) :
        Cardinality({j \in 1..Len(src_ids) : src_ids[j] = moves_elements[i]}) = 1

\* C5: a poll that finds every rendered element already seen leaves the
\* history and the list of seen elements as they were.
C5_Idempotent ==
    [][(/\ pc \in {"await", "bong", "bongdone"}
        /\ \A i \in 1..Len(log) : \E j \in 1..Len(moves_elements) : moves_elements[j] = log[i].id)
       => (moves' = moves /\ moves_elements' = moves_elements)]_vars

\* a poll has read the whole log, and the next poll will find nothing new
C5_Witness ==
    /\ pc = "await"
    /\ AfterIsTurn
    /\ Len(log) >= 3
    /\ moves_elements = Ids(log)
    /\ Len(moves) = Len(log)

\* C6: a trailing entry that holds both "white is victorious" and "draw" is
\* reported as a victory: a win for white and a loss for black, never a draw.
C6_VictoryBeforeDraw ==
    (/\ AfterIsTurn
     /\ moves # <<>>
     /\ Contains(lower(LastMove), white_is_victorious)
     /\ Contains(lower(LastMove), draw))
    => outcome = (IF color = "white" THEN "win" ELSE "loss")

\* such an entry was read while playing black
C6_Witness ==
    /\ AfterIsTurn
    /\ moves # <<>>
    /\ LastMove = WhiteWinsNoDraw
    /\ color = "black"
    /\ outcome = "loss"

\* C7: on a trailing entry with a victory phrase the outcome is a win iff
\* the side named in the phrase is the side played, and a loss otherwise.
C7_WinIffOwnSide ==
    (AfterIsTurn /\ moves # <<>> /\ Contains(lower(LastMove), victorious)) =>
        outcome = (IF Contains(lower(LastMove),
                               IF color = "white" THEN white_is_victorious
                               ELSE black_is_victorious)
                   THEN "win" ELSE "loss")

\* "Black is victorious" was read while playing black, and reported as a win
C7_Witness ==
    /\ AfterIsTurn
    /\ moves # <<>>
    /\ LastMove = BlackWins
    /\ color = "black"
    /\ outcome = "win"

OtherTable ==
    calculate_positions(IF color = "white" THEN "black" ELSE "white", files, ranks,
                        abs_x_of(screen), abs_y_of(screen), screen.width, screen.height)

\* C9: for every square the points of the two tables are reflections of each
\* other through the board centre: x values sum to 2*origin_x + W, y values
\* to 2*origin_y + H.
C9_PointReflection ==
    (pc = "ready") =>
        \A other \in {OtherTable} : \A sq \in SquareNames :
            /\ positions[sq][1] + other[sq][1] = 2 * abs_x_of(screen) + screen.width
            /\ positions[sq][2] + other[sq][2] = 2 * abs_y_of(screen) + screen.height

\* a table was computed for a board whose cell centres fall on half pixels
C9_Witness ==
    /\ pc = "ready"
    /\ color = "black"
    /\ screen.width = 8
    /\ screen.height = 8
    /\ abs_x_of(screen) = 0
    /\ abs_y_of(screen) = 0
    /\ positions[<<"e","2">>] = <<4, 2>>
    /\ OtherTable[<<"e","2">>] = <<4, 6>>

\* the rank of the square whose height the pick click takes, for the
\* destination rank d
PickRank(c, piece, d) ==
    CASE piece = "q" -> d
      [] piece = "n" -> IF c = "white" THEN d - 1 ELSE d + 1
      [] piece = "r" -> IF c = "white" THEN d - 2 ELSE d + 2
      [] piece = "b" -> IF c = "white" THEN d - 3 ELSE d + 3

\* C10: after a promotion move the third gesture is a click whose y is that
\* of the square on the destination file at rank destination + adjustment
\* (queen 0, knight -1, rook -2, bishop -3 for white, negated for black).
C10_PromotionPick ==
    (pc = "ready" /\ Len(gestures.move) = 5) =>
        LET m == gestures.move
            sq == SquareName(m[3], PickRank(color, m[5], int(m[4])))
        IN  /\ ~gestures.raised
            /\ Len(gestures.calls) = 3
            /\ gestures.calls[3].op = "click"
            /\ gestures.calls[3].y = positions[sq][2]

\* black promoted to a knight on e1 and the click went to the height of e2,
\* which is not the height of e1
C10_Witness ==
    /\ pc = "ready"
    /\ color = "black"
    /\ gestures.move = <<"e","2","e","1","n">>
    /\ Len(gestures.calls) = 3
    /\ gestures.calls[3].y = positions[<<"e","2">>][2]
    /\ gestures.calls[3].y # positions[<<"e","1">>][2]

\* the states in which the worker is inside a wait loop: wait_for_ranks()
\* in initialize_game(), the opening wait of execute_bongcloud_moves() and
\* the wait for the turn in gameloop()
WaitLoops == {"init", "bong", "await"}

\* the flag is set, or ESC was pressed and exit_program() has begun
Cancelled == flag \/ page = "closed"

\* C11 as stated: once the flag is set or exit was requested, a step that
\* changes the state of a worker inside a wait loop takes the worker out of
\* that loop.
C11_WaitLoopsStop ==
    [][(Cancelled /\ pc \in WaitLoops) => pc' # pc]_vars

\* C12: while the flag is set the worker is past its loops (waiting for the
\* restart signal, or on the way there through the rest of
\* initialize_game() in opening mode); from the wait for the restart signal
\* it only goes on to initialize_game(), with the flag cleared; and when
\* initialize_game() hands over to the first poll of the new game the
\* history and the list of seen elements are both empty.
C12_RestartResets ==
    /\ [](flag => pc \in {"over", "bongdone", "exited"})
    /\ [][(flag /\ pc = "bongdone" /\ pc' # pc) => pc' \in {"over", "exited"}]_vars
    /\ [][(pc = "over" /\ pc' # pc) => (pc' = "exited" \/ (pc' = "init" /\ ~flag'))]_vars
    /\ [][(pc = "init" /\ pc' \in {"await", "bong"})
          => (moves' = <<>> /\ moves_elements' = <<>> /\ ~flag')]_vars

\* a finished game was read, ENTER was pressed and initialize_game() has run
\* again on the page that still shows the finished game
C12_Witness ==
    /\ pc = "await"
    /\ last = "initialize_game"
    /\ outcome # "ongoing"
    /\ Ended(log)
    /\ ~flag
    /\ moves = <<>>
    /\ moves_elements = <<>>

\* C13 as stated: when initialize_game() hands over to the wait for the
\* turn with opening mode off, it has executed a move iff the side is black.
C13_OpeningIffBlack ==
    [][(pc = "init" /\ pc' = "await" /\ ~bongcloud)
       => ((nExec' # nExec) <=> color' = "black")]_vars

\* C13 amended: when initialize_game() hands over to the wait for the turn
\* with opening mode off, it has executed a move iff the side is white, that
\* move is e2e4, and the engine was not asked for a move; as black nothing
\* was executed.
C13_OpeningIffWhite ==
    [][(pc = "init" /\ pc' = "await" /\ ~bongcloud)
       => /\ (nExec' # nExec) <=> color' = "white"
          /\ (nExec' # nExec) => gestures'.move = <<"e","2","e","4">>
          /\ (nExec' = nExec) => gestures' = gestures
          /\ nQuery' = nQuery]_vars

\* initialize_game() has just run as white with opening mode off and has
\* dragged e2 to e4
C13_Witness ==
    /\ pc = "await"
    /\ last = "initialize_game"
    /\ ~bongcloud
    /\ color = "white"
    /\ gestures.move = <<"e","2","e","4">>
    /\ Len(gestures.calls) > 0
    /\ nExec = 1

\* C14: a get_next_move() call in which the engine was asked and no move was
\* executed (the engine had no best move) sets the flag, makes no gesture
\* and takes the worker to the wait for the restart signal; while the
\* worker waits there no step asks the engine or executes a move.
C14_NoBestMoveStops ==
    /\ [][(pc = "think" /\ nQuery' # nQuery /\ nExec' = nExec)
          => (flag' /\ pc' = "over" /\ gestures' = gestures)]_vars
    /\ [][pc = "over" => (nQuery' = nQuery /\ nExec' = nExec)]_vars

\* the engine had no best move in a game the page shows as still going on,
\* and the worker waits for the restart signal
C14_Witness ==
    /\ pc = "over"
    /\ last = "get_next_move"
    /\ flag
    /\ outcome = "ongoing"
    /\ nQuery = 1
    /\ nExec = 0

\* the history a poll reads from the whole of log l
HistoryOf(l) == [i \in 1..Len(l) |-> IF isdigit(l[i].text) THEN l[i].text \o <<".">>
                                     ELSE l[i].text]

\* the side to move after the plies of log l
SideToMove(l) == IF Plies(l) % 2 = 0 THEN "white" ELSE "black"

\* C15: on a log of whole plies without terminal entry the parity rule,
\* applied to the history read from the whole log, is true for exactly the
\* side that is to move; and when determine_turn() has run on such a
\* history its result is true iff the bot's side is to move.
C15_ParityIsSideToMove ==
    /\ \A c \in {"white", "black"} :
           determine_turn(c, HistoryOf(log)) <=> (c = SideToMove(log))
    /\ (last = "determine_turn" /\ moves = HistoryOf(log))
           => (turn <=> (color = SideToMove(log)))

\* determine_turn() was true for black after ten rounds and a white ply,
\* with two-digit move numbers in the log
C15_Witness ==
    /\ last = "determine_turn"
    /\ color = "black"
    /\ Plies(log) = 21
    /\ Len(log) = 32
    /\ moves = HistoryOf(log)
    /\ moves[31] = <<"1","1",".">>
    /\ turn

\* C16 as stated: within a game, a step that asks the engine for a move or
\* executes a move happens only if no move was executed before in this game
\* or the polls have by then seen more elements than were seen when the
\* last move was executed.
C16_OneMovePerTurn ==
    [][(pc # "init" /\ (nQuery' # nQuery \/ nExec' # nExec))
       => (seen_at_move = -1 \/ Len(moves_elements') > seen_at_move)]_vars

\* the log shows a game that is not over and the parity rule, applied to the
\* whole log, says it is the bot's turn
BotTurnInLog ==
    /\ page = "game"
    /\ ~Ended(log)
    /\ determine_turn(color, HistoryOf(log))

\* C17 as stated: while the worker waits for its turn (the flag is then not
\* set) and the log shows the bot's turn, a poll, i.e. a step that changes
\* the worker's state and leaves the page as it is, ends the wait and takes
\* the worker to get_next_move().
C17_TurnDetected ==
    [][(pc = "await" /\ ~flag /\ BotTurnInLog /\ envVars' = envVars) => pc' = "think"]_vars

\* s is a prefix of t
IsPrefix(s, t) == Len(s) <= Len(t) /\ SubSeq(t, 1, Len(s)) = s

\* the place in the log of the element with identity id
PlaceOf(id) == CHOOSE i \in 1..Len(log) : log[i].id = id

\* C18: a step outside initialize_game() leaves the previous history as a
\* prefix of the new one; and while the page shows the game, every entry of
\* the history was read from an element of the log, the elements the
\* entries were read from follow each other in the order of the log, and
\* the entry is the element's text with "." appended when the text is
\* all digits and the text itself otherwise.
C18_AppendOnly ==
    /\ [][pc # "init" => IsPrefix(moves, moves')]_vars
    /\ [](page = "game" =>
            /\ Len(src_ids) = Len(moves)
            /\ \A i \in 1..Len(moves) :
                 /\ \E j \in 1..Len(log) : log[j].id = src_ids[i]
                 /\ i > 1 => PlaceOf(src_ids[i - 1]) < PlaceOf(src_ids[i])
                 /\ LET text == log[PlaceOf(src_ids[i])].text
                    IN  moves[i] = IF \A k \in 1..Len(text) : text[k] \in Range(DigitChars)
                                   THEN text \o <<".">> ELSE text)

\* the history holds a move number with its marker, two moves and a status
\* line, each read from the element at the same place of the log
C18_Witness ==
    /\ page = "game"
    /\ pc = "over"
    /\ Len(moves) = 4
    /\ moves[1] = <<"1", ".">>
    /\ moves[2] = <<"N", "f", "3">>
    /\ moves[4] = DrawText
    /\ src_ids = <<1, 2, 3, 4>>

\* C19 as stated: in every state the list of seen elements and the history
\* have the same length, and each entry of the history was read from the
\* seen element at the same position.
C19_SeenMatchesHistory ==
    /\ Len(moves_elements) = Len(moves)
    /\ src_ids = moves_elements

\* the last min(2, n) of the n moves p, in their order
LastTwo(p) == SubSeq(p, Len(p) - (IF Len(p) < 2 THEN Len(p) ELSE 2) + 1, Len(p))

\* C20: a get_next_move() call on a non-empty history hands the engine
\* exactly the last min(2, n) of the n moves parsed from the history,
\* whatever it handed over before, and asks the engine for a best move; when
\* the engine rejected the list the call still asks, and the flag is not set
\* unless the engine then has no best move.
C20_EngineDelta ==
    [][(pc = "think" /\ moves # <<>> /\ last' = "get_next_move")
       => /\ window' = LastTwo(mainline_moves(moves))
          /\ Len(window') <= 2
          /\ nQuery' # nQuery
          /\ delta_rejected' => (flag' <=> nExec' = nExec)]_vars

\* three moves were parsed, the engine rejected the list of the last two and
\* the worker went on to execute the engine's best move
C20_Witness ==
    /\ last = "get_next_move"
    /\ pc = "await"
    /\ Len(mainline_moves(moves)) = 3
    /\ window = <<<<"g","8","f","6">>, <<"f","3","g","1">>>>
    /\ delta_rejected
    /\ ~flag
    /\ nQuery = 1
    /\ nExec = 1

====
